---- MODULE Spec2Model ----
(***************************************************************************)
(* A model of BookGen (src/bg.h): the indentation depth, the chapter       *)
(* counters, the table-of-contents store and the lines the public calls    *)
(* write to the output stream.                                             *)
(*                                                                         *)
(* The functions of bg.h are operators on a record m that holds the        *)
(* library's static variables together with the lines written so far by    *)
(* the public call in progress; one action per public call applies the     *)
(* operator of that call to the current state.  assert() is compiled in    *)
(* (no NDEBUG): a failed assertion aborts the process, and the state it    *)
(* leaves behind is the state at the failing assert.                       *)
(*                                                                         *)
(* The three v_bg_toc_* arrays are modelled by their first v_bg_toc_count  *)
(* slots: no function of bg.h reads a slot at or beyond v_bg_toc_count.    *)
(***************************************************************************)
EXTENDS Integers, Sequences, FiniteSets, TLC

(***************************************************************************)
(* Program constants and bounds                                            *)
(***************************************************************************)
V_BG_MAX_TOC == 100

\* char chapterNumBuf[32], char chapterTmpBuf[8] of BG_H and the 32 bytes of
\* one slot of v_bg_toc_numbers.
ChapterNumBufSize == 32
ChapterTmpBufSize == 8
TocNumberSize == 32

\* A heading is stored while the store holds fewer than MaxToc entries ...
MaxToc == 3
\* ... or is within NearFull entries of V_BG_MAX_TOC.
NearFull == 2
\* BG_TAG / BG_TAG_A are offered while the depth is below MaxDepth.
MaxDepth == 2

Titles == {"A", "B"}
TocTitle == "Table of Contents"
Levels == 0..7
Depths == 0..7
Streams == {"NULL", "file"}

VARIABLES
    v_bg_depth,        \* static int v_bg_depth
    v_bg_chapter,      \* static size_t v_bg_chapter[6], index 1..6 = level
    v_bg_toc_titles,   \* v_bg_toc_titles[0 .. v_bg_toc_count-1]
    v_bg_toc_levels,   \* v_bg_toc_levels[0 .. v_bg_toc_count-1]
    v_bg_toc_numbers,  \* v_bg_toc_numbers[0 .. v_bg_toc_count-1]
    v_bg_toc_count,    \* static size_t v_bg_toc_count
    v_bg_out,          \* static FILE* v_bg_out: "NULL", "stdout" or "file"
    status,            \* "running", or the assertion that aborted the process
    call,              \* the most recent public call and its arguments
    emitted,           \* the lines that call wrote to v_bg_out
    hlines,            \* the heading lines written since the last BG_INIT
    openStack,         \* the opening-tag lines written since the last
                       \* BG_INIT that no closing tag has answered yet
    buffered,          \* TRUE when lines the library wrote are still in a
                       \* stdio buffer (setvbuf(_IOFBF, 1 << 20) in BG_INIT)
    b64_pc,            \* the position of a run of U_BG_TOBASE64
    b64_f,             \* the file at path: is it readable, and its bytes
    b64_pos,           \* the number of bytes of f read so far
    b64_n,             \* size_t n: what the last fread returned
    b64_in,            \* unsigned char in[3]
    b64_sink           \* the characters written to v_bg_out by the run

b64vars == << b64_pc, b64_f, b64_pos, b64_n, b64_in, b64_sink >>

vars == << v_bg_depth, v_bg_chapter, v_bg_toc_titles, v_bg_toc_levels,
           v_bg_toc_numbers, v_bg_toc_count, v_bg_out, status, call,
           emitted, hlines, openStack, buffered, b64vars >>

(***************************************************************************)
(* Text                                                                    *)
(***************************************************************************)
DigitChar == << "0", "1", "2", "3", "4", "5", "6", "7", "8", "9" >>

\* A variant of FormatLu that writes the digits least significant first.
RECURSIVE FormatLu_reversed(_)
FormatLu_reversed(n) ==
    IF n < 10 THEN << DigitChar[n + 1] >>
    ELSE << DigitChar[(n % 10) + 1] >> \o FormatLu_reversed(n \div 10)

\* printf("%lu", n): the decimal digits of n, most significant first.
RECURSIVE FormatLu(_)
FormatLu(n) ==
    IF n < 10 THEN << DigitChar[n + 1] >>
    ELSE FormatLu(n \div 10) \o << DigitChar[(n % 10) + 1] >>

\* sprintf(chapterTmpBuf, "%lu.", v_bg_chapter[i])
ChapterTmp(n) == FormatLu(n) \o << "." >>

\* chapterNumBuf after the loop  for (i = 0; i < level; i++) strcat(...)
RECURSIVE ChapterNum(_, _)
ChapterNum(chapter, level) ==
    IF level = 0 THEN << >>
    ELSE ChapterNum(chapter, level - 1) \o ChapterTmp(chapter[level])

(***************************************************************************)
(* The machine record and the lines                                        *)
(***************************************************************************)
Machine ==
    [ depth   |-> v_bg_depth,
      chapter |-> v_bg_chapter,
      titles  |-> v_bg_toc_titles,
      levels  |-> v_bg_toc_levels,
      numbers |-> v_bg_toc_numbers,
      count   |-> v_bg_toc_count,
      out     |-> v_bg_out,
      col     |-> 0,
      lines   |-> << >>,
      fault   |-> "none" ]

\* The static initializers of bg.h.
Machine0 ==
    [ depth   |-> 0,
      chapter |-> [ i \in 1..6 |-> 0 ],
      titles  |-> << >>,
      levels  |-> << >>,
      numbers |-> << >>,
      count   |-> 0,
      out     |-> "NULL",
      col     |-> 0,
      lines   |-> << >>,
      fault   |-> "none" ]

\* One line of output.  indent is the number of spaces written in front of
\* it, depth the value of v_bg_depth when it was written, payload the
\* characters a file helper streamed into it.
Line(kind, level, id, prefix, title) ==
    [ kind |-> kind, indent |-> 0, depth |-> 0, stream |-> "NULL",
      level |-> level, id |-> id, prefix |-> prefix, title |-> title,
      payload |-> << >> ]

TagLine(kind) == Line(kind, 0, << >>, << >>, "")

\* The line as it reaches the stream: behind the spaces already written.
Stamp(m, line) ==
    [ line EXCEPT !.indent = m.col, !.depth = m.depth, !.stream = m.out ]

\* fprintf(v_bg_out, "...\n"): ends the current line.
Emit(m, line) == [ m EXCEPT !.lines = Append(@, Stamp(m, line)), !.col = 0 ]

\* A failed assert: abort() with the state as it is.
Abort(m, why) == [ m EXCEPT !.fault = why ]

(***************************************************************************)
(* Helpers and primitives                                                  *)
(***************************************************************************)
\* A variant of U_BG_INDENT that writes no spaces for a negative depth but
\* leaves the depth as it is.
U_BG_INDENT_noclamp(m) ==
    [ m EXCEPT !.col = @ + 2 * (IF m.depth < 0 THEN 0 ELSE m.depth) ]

U_BG_INDENT(m) ==
    LET d == IF m.depth < 0 THEN 0 ELSE m.depth
    IN  [ m EXCEPT !.depth = d, !.col = @ + 2 * d ]

BG_TAG(m) ==
    LET m1 == Emit(U_BG_INDENT(m), TagLine("open"))
    IN  [ m1 EXCEPT !.depth = @ + 1 ]

BG_TAG_A(m) ==
    LET m1 == Emit(U_BG_INDENT(m), TagLine("open"))
    IN  [ m1 EXCEPT !.depth = @ + 1 ]

\* A variant of BG_END that indents before it decrements the depth.
BG_END_late(m) ==
    LET m1 == Emit(U_BG_INDENT(m), TagLine("close"))
    IN  [ m1 EXCEPT !.depth = @ - 1 ]

BG_END(m) ==
    Emit(U_BG_INDENT([ m EXCEPT !.depth = @ - 1 ]), TagLine("close"))

BG_VOID(m) == Emit(U_BG_INDENT(m), TagLine("void"))

BG_VOID_A(m) == Emit(U_BG_INDENT(m), TagLine("void"))

BG_TXT(m) == Emit(U_BG_INDENT(m), TagLine("txt"))

(***************************************************************************)
(* Initialization                                                          *)
(***************************************************************************)
\* A variant of BG_INIT that leaves the store as it is.
BG_INIT_keepstore(m) ==
    [ m EXCEPT !.chapter = [ i \in 1..6 |-> 0 ],
               !.depth = 0,
               !.out = IF @ = "NULL" THEN "stdout" ELSE @ ]

BG_INIT(m) ==
    [ m EXCEPT !.chapter = [ i \in 1..6 |-> 0 ],
               !.depth = 0,
               !.count = 0,
               !.titles = << >>, !.levels = << >>, !.numbers = << >>,
               !.out = IF @ = "NULL" THEN "stdout" ELSE @ ]

BG_INIT_FILE(m, where) ==
    BG_INIT([ m EXCEPT !.out = IF where # "NULL" THEN where ELSE "stdout" ])

(***************************************************************************)
(* Headings                                                                *)
(***************************************************************************)
\* A variant of LevelInRange without the lower limit.
LevelInRange_upper(level) == level <= 6

\* assert(level >= 1 && level <= 6)
LevelInRange(level) == level >= 1 /\ level <= 6

\* A variant of JumpsLevel that guards the levels from 3 on.
JumpsLevel_from3(chapter, level) == level > 2 /\ ~ (chapter[level - 1] # 0)

\* if (level >= 2) assert(v_bg_chapter[level-2] != 0) fails
JumpsLevel(chapter, level) == level >= 2 /\ ~ (chapter[level - 1] # 0)

\* A variant of IncrementLevel that indexes the vector by level.
IncrementLevel_next(chapter, level) ==
    [ chapter EXCEPT ![IF level < 6 THEN level + 1 ELSE level] = @ + 1 ]

\* v_bg_chapter[level - 1]++
IncrementLevel(chapter, level) == [ chapter EXCEPT ![level] = @ + 1 ]

\* A variant of ResetSubLevels whose loop starts one level too deep.
ResetSubLevels_deeper(chapter, level) ==
    [ i \in 1..6 |-> IF i > level + 1 THEN 0 ELSE chapter[i] ]

\* for ( i = level; i < 6; i++ ) v_bg_chapter[i] = 0;
ResetSubLevels(chapter, level) ==
    [ i \in 1..6 |-> IF i > level THEN 0 ELSE chapter[i] ]

\* A variant of TocHasRoom that admits one entry more.
TocHasRoom_inclusive(count) == count <= V_BG_MAX_TOC

\* assert(v_bg_toc_count < V_BG_MAX_TOC)
TocHasRoom(count) == count < V_BG_MAX_TOC

\* A variant of Record that writes the new entry into slot 0 and moves the
\* stored entries up by one.
Record_front(m, level, title, chapterNumBuf) ==
    [ m EXCEPT !.titles = << title >> \o @,
               !.levels = << level >> \o @,
               !.numbers = << chapterNumBuf >> \o @,
               !.count = @ + 1 ]

\* A variant of Record that stores the level as an array index.
Record_index(m, level, title, chapterNumBuf) ==
    [ m EXCEPT !.titles = Append(@, title),
               !.levels = Append(@, level - 1),
               !.numbers = Append(@, chapterNumBuf),
               !.count = @ + 1 ]

\* Storing the chapter number: the three array writes and the count++.
Record(m, level, title, chapterNumBuf) ==
    [ m EXCEPT !.titles = Append(@, title),
               !.levels = Append(@, level),
               !.numbers = Append(@, chapterNumBuf),
               !.count = @ + 1 ]

\* fprintf(v_bg_out, "<h%lu id=\"%s\">%s %s</h%lu>\n", ...)
HeadingLine(level, chapterNumBuf, title) ==
    Line("h", level, chapterNumBuf, chapterNumBuf, title)

\* A variant of BG_H that asserts the room in the store next to its other
\* preconditions, before it counts and writes.
BG_H_checkfirst(m, level, title) ==
    IF ~ LevelInRange(level) THEN Abort(m, "level")
    ELSE IF JumpsLevel(m.chapter, level) THEN Abort(m, "jump")
    ELSE IF ~ TocHasRoom(m.count) THEN Abort(m, "capacity")
    ELSE
      LET chapter == ResetSubLevels(IncrementLevel(m.chapter, level), level)
          chapterNumBuf == ChapterNum(chapter, level)
          m1 == Emit(U_BG_INDENT([ m EXCEPT !.chapter = chapter ]),
                     HeadingLine(level, chapterNumBuf, title))
      IN  Record(m1, level, title, chapterNumBuf)

\* A variant of BG_H that treats its heading as an opening tag: the depth
\* is one greater behind the line.
BG_H_opening(m, level, title) ==
    IF ~ LevelInRange(level) THEN Abort(m, "level")
    ELSE IF JumpsLevel(m.chapter, level) THEN Abort(m, "jump")
    ELSE
      LET chapter == ResetSubLevels(IncrementLevel(m.chapter, level), level)
          chapterNumBuf == ChapterNum(chapter, level)
          m1 == Emit(U_BG_INDENT([ m EXCEPT !.chapter = chapter ]),
                     HeadingLine(level, chapterNumBuf, title))
          m2 == [ m1 EXCEPT !.depth = @ + 1 ]
      IN  IF ~ TocHasRoom(m2.count) THEN Abort(m2, "capacity")
          ELSE Record(m2, level, title, chapterNumBuf)

BG_H(m, level, title) ==
    IF ~ LevelInRange(level) THEN Abort(m, "level")
    ELSE IF JumpsLevel(m.chapter, level) THEN Abort(m, "jump")
    ELSE
      LET chapter == ResetSubLevels(IncrementLevel(m.chapter, level), level)
          chapterNumBuf == ChapterNum(chapter, level)
          m1 == Emit(U_BG_INDENT([ m EXCEPT !.chapter = chapter ]),
                     HeadingLine(level, chapterNumBuf, title))
      IN  IF ~ TocHasRoom(m1.count) THEN Abort(m1, "capacity")
          ELSE Record(m1, level, title, chapterNumBuf)

(***************************************************************************)
(* Table of contents                                                       *)
(***************************************************************************)
\* The loop bound of BG_TOC:  i + 1 < v_bg_toc_count  (i counts from 0).
TocLoopRuns(i, count) == i + 1 < count

\* A variant of TocSkips that also skips the entries of level depth.
TocSkips_inclusive(depth, level) == depth # 0 /\ level >= depth

\* The filter of BG_TOC: the entry is skipped when this holds.
TocSkips(depth, level) == depth # 0 /\ level > depth

\* fprintf(v_bg_out, "<li class=\"toc-L%lu\"><a href=\"#%s\">%s %s</a></li>\n", ...)
TocLine(m, i) ==
    Line("li", m.levels[i + 1], m.numbers[i + 1], m.numbers[i + 1],
         m.titles[i + 1])

\* The loop of BG_TOC: the indices i (0-based) it visits without skipping,
\* in order, and one indented line for each of them.
TocItems(m, depth) ==
    LET visited == SelectSeq([ k \in 1..m.count |-> k - 1 ],
                             LAMBDA i : /\ TocLoopRuns(i, m.count)
                                        /\ ~ TocSkips(depth, m.levels[i + 1]))
        mi == U_BG_INDENT(m)
    IN  IF visited = << >> THEN m
        ELSE [ mi EXCEPT
                 !.lines = @ \o [ k \in 1..Len(visited) |->
                                    Stamp(mi, TocLine(m, visited[k])) ],
                 !.col = 0 ]

\* assert(depth >= 0 && depth <= 6)
DepthInRange(depth) == depth >= 0 /\ depth <= 6

\* A variant of BG_TOC that writes its heading as a plain line: nothing is
\* counted and nothing is stored.
BG_TOC_unrecorded(m, depth) ==
    IF ~ DepthInRange(depth) THEN Abort(m, "depth")
    ELSE
      LET m1 == Emit(U_BG_INDENT(BG_TAG_A(m)), HeadingLine(1, << >>, TocTitle))
      IN  BG_END(BG_END(TocItems(BG_TAG(m1), depth)))

BG_TOC(m, depth) ==
    IF ~ DepthInRange(depth) THEN Abort(m, "depth")
    ELSE
      LET m1 == BG_H(BG_TAG_A(m), 1, TocTitle)
      IN  IF m1.fault # "none" THEN m1
          ELSE BG_END(BG_END(TocItems(BG_TAG(m1), depth)))

(***************************************************************************)
(* Files and Base64                                                        *)
(***************************************************************************)
\* The bytes the explored files are made of, and the length of the longest.
ByteSamples == { 0, 77, 255 }
MaxFileLen == 6

ByteSeqs(n) == UNION { [ 1..k -> ByteSamples ] : k \in 0..n }

\* What fopen and the reads find at a path: a file that cannot be opened, or
\* the bytes of one that can.
NoFile == [ readable |-> FALSE, bytes |-> << >> ]

Files ==
    { NoFile } \cup { [ readable |-> TRUE, bytes |-> b ] : b \in ByteSeqs(MaxFileLen) }

\* The local file system of the sessions: nothing at "absent", a file of four
\* bytes at "asset".
Paths == { "absent", "asset" }

FileAt(path) ==
    IF path = "asset" THEN [ readable |-> TRUE, bytes |-> << 77, 0, 255, 77 >> ]
    ELSE NoFile

\* unsigned char in[3] is not initialized: what it holds before the first
\* fread is whatever the stack held.
Junk == { << 0, 0, 0 >>, << 255, 255, 255 >> }

V_BG_BASE64_TABLE ==
    << "A", "B", "C", "D", "E", "F", "G", "H", "I", "J", "K", "L", "M",
       "N", "O", "P", "Q", "R", "S", "T", "U", "V", "W", "X", "Y", "Z",
       "a", "b", "c", "d", "e", "f", "g", "h", "i", "j", "k", "l", "m",
       "n", "o", "p", "q", "r", "s", "t", "u", "v", "w", "x", "y", "z",
       "0", "1", "2", "3", "4", "5", "6", "7", "8", "9", "+", "/" >>

\* V_BG_BASE64_TABLE[i], i counted from 0 as in C.
TableAt(i) == V_BG_BASE64_TABLE[i + 1]

\* The operators >>, <<, & and | on unsigned char promoted to int.
Shr(x, k) == x \div (2 ^ k)

Shl(x, k) == x * (2 ^ k)

RECURSIVE BitAnd(_, _)
BitAnd(a, b) ==
    IF a = 0 \/ b = 0 THEN 0
    ELSE (IF a % 2 = 1 /\ b % 2 = 1 THEN 1 ELSE 0)
         + 2 * BitAnd(a \div 2, b \div 2)

RECURSIVE BitOr(_, _)
BitOr(a, b) ==
    IF a = 0 THEN b
    ELSE IF b = 0 THEN a
    ELSE (IF a % 2 = 1 \/ b % 2 = 1 THEN 1 ELSE 0)
         + 2 * BitOr(a \div 2, b \div 2)

\* n = fread(in, 1, 3, f) at offset pos: up to three bytes, fewer at the end
\* of the file; the slots of in beyond n keep what they held.
FreadCount(bytes, pos) == IF Len(bytes) - pos < 3 THEN Len(bytes) - pos ELSE 3

FreadInto(in, bytes, pos) ==
    [ k \in 1..3 |-> IF k <= FreadCount(bytes, pos) THEN bytes[pos + k]
                     ELSE in[k] ]

\* The four characters of one window; in[1..3] are in[0..2] of the source.
Out0(in) == TableAt(Shr(in[1], 2))

\* A variant of Out1 that takes the low four bits of the second byte.
Out1_lowbits(in, n) ==
    TableAt(BitOr(Shl(BitAnd(in[1], 3), 4),
                  BitAnd(IF n > 1 THEN in[2] ELSE 0, 15)))

Out1(in, n) ==
    TableAt(BitOr(Shl(BitAnd(in[1], 3), 4),
                  Shr(IF n > 1 THEN in[2] ELSE 0, 4)))

\* A variant of Out2 that encodes a missing second byte as 0 bits.
Out2_nopad(in, n) ==
    TableAt(BitOr(Shl(BitAnd(IF n > 1 THEN in[2] ELSE 0, 15), 2),
                  Shr(IF n > 2 THEN in[3] ELSE 0, 6)))

Out2(in, n) ==
    IF n > 1
    THEN TableAt(BitOr(Shl(BitAnd(in[2], 15), 2),
                       Shr(IF n > 2 THEN in[3] ELSE 0, 6)))
    ELSE "="

Out3(in, n) == IF n > 2 THEN TableAt(BitAnd(in[3], 63)) ELSE "="

\* fwrite(out, 1, 4, v_bg_out)
Window(in, n) == << Out0(in), Out1(in, n), Out2(in, n), Out3(in, n) >>

\* The loop of U_BG_TOBASE64 from offset pos on: the characters it writes.
RECURSIVE Base64Loop(_, _, _)
Base64Loop(bytes, pos, in) ==
    IF ~ (FreadCount(bytes, pos) > 0) THEN << >>
    ELSE Window(FreadInto(in, bytes, pos), FreadCount(bytes, pos))
         \o Base64Loop(bytes, pos + FreadCount(bytes, pos),
                       FreadInto(in, bytes, pos))

\* fprintf without a trailing newline: the line stays open.
Begin(m, line) == [ m EXCEPT !.lines = Append(@, Stamp(m, line)) ]

\* Characters streamed behind what the open line holds.
Stream(m, text) ==
    [ m EXCEPT !.lines[Len(m.lines)].payload = @ \o text ]

\* fprintf(v_bg_out, "\">\n"): the open line is complete.
Finish(m, kind) ==
    [ m EXCEPT !.lines[Len(m.lines)].kind = kind, !.col = 0 ]

\* if (f == NULL) return; otherwise every character of the file is copied.
U_BG_READFILE(m, path) ==
    LET f == FileAt(path)
    IN  IF ~ f.readable \/ f.bytes = << >> THEN m
        ELSE Stream(Begin(m, Line("raw", 0, << >>, << >>, path)), f.bytes)

\* assert(f != NULL), then the loop.
U_BG_TOBASE64(m, path, junk) ==
    LET f == FileAt(path)
    IN  IF ~ f.readable THEN Abort(m, "file")
        ELSE Stream(m, Base64Loop(f.bytes, 0, junk))

(***************************************************************************)
(* Styles, images, links and page breaks                                   *)
(***************************************************************************)
BG_STYLE_INLINE(m, path) == BG_END(U_BG_READFILE(BG_TAG(m), path))

BG_IMG(m, path) == Emit(U_BG_INDENT(m), Line("img", 0, << >>, << >>, path))

BG_IMG_A(m, path) == Emit(U_BG_INDENT(m), Line("img", 0, << >>, << >>, path))

\* No call of U_BG_INDENT: the element starts where the line stands.
BG_IMG_INLINE(m, path, junk) ==
    LET m1 == U_BG_TOBASE64(Begin(m, Line("img-prefix", 0, << >>, << >>, path)),
                            path, junk)
    IN  IF m1.fault # "none" THEN m1 ELSE Finish(m1, "img")

BG_IMG_INLINE_A(m, path, junk) ==
    LET m1 == U_BG_TOBASE64(Begin(U_BG_INDENT(m),
                                  Line("img-prefix", 0, << >>, << >>, path)),
                            path, junk)
    IN  IF m1.fault # "none" THEN m1 ELSE Finish(m1, "img")

BG_PAGEBREAK(m) == Emit(U_BG_INDENT(m), TagLine("pagebreak"))

BG_LINK(m) == Emit(U_BG_INDENT(m), TagLine("a"))

(***************************************************************************)
(* Compound emitters: an element, its text and its closing tag in one call *)
(***************************************************************************)
BG_P(m) == BG_TAG(m)

BG_END_P(m) == BG_END(m)

BG_DOCTITLE(m) == BG_END(BG_TXT(BG_TAG(m)))

BG_LI(m) == BG_END(BG_TXT(BG_TAG(m)))

BG_LI_A(m) == BG_END(BG_TXT(BG_TAG_A(m)))

BG_TH(m) == BG_END(BG_TXT(BG_TAG(m)))

BG_TH_A(m) == BG_END(BG_TXT(BG_TAG_A(m)))

BG_TD(m) == BG_END(BG_TXT(BG_TAG(m)))

BG_TD_A(m) == BG_END(BG_TXT(BG_TAG_A(m)))

BG_CAPTION(m) == BG_END(BG_TXT(BG_TAG(m)))

BG_FIGCAP(m) == BG_END(BG_TXT(BG_TAG(m)))

\* v_bg_depth++ and v_bg_depth-- written out in BG_STYLE_PRINT.
DepthUp(m) == [ m EXCEPT !.depth = @ + 1 ]

DepthDown(m) == [ m EXCEPT !.depth = @ - 1 ]

\* A variant of BG_STYLE_PRINT without the v_bg_depth-- behind the rules of
\* .print-root.
BG_STYLE_PRINT_unbalanced(m) ==
    LET m1 == DepthUp(BG_TXT(BG_TAG(m)))
        m2 == DepthUp(BG_TXT(BG_TXT(BG_TXT(m1))))
        m3 == BG_TXT(BG_TXT(BG_TXT(BG_TXT(m2))))
        m4 == DepthDown(BG_TXT(m3))
    IN  BG_END(BG_TXT(m4))

BG_STYLE_PRINT(m) ==
    LET m1 == DepthUp(BG_TXT(BG_TAG(m)))
        m2 == DepthUp(BG_TXT(BG_TXT(BG_TXT(m1))))
        m3 == DepthDown(BG_TXT(BG_TXT(BG_TXT(BG_TXT(m2)))))
        m4 == DepthDown(BG_TXT(m3))
    IN  BG_END(BG_TXT(m4))

\* The authors BG_QUOTE is called with: NULL, "" and a name.
Authors == { "NULL", "", "A" }

\* if (author && *author)
HasAuthor(author) == author # "NULL" /\ author # ""

BG_QUOTE(m, author) ==
    LET m1 == BG_END_P(BG_TXT(BG_P(BG_TAG(m))))
        m2 == IF HasAuthor(author)
              THEN BG_END(Emit(U_BG_INDENT(BG_TAG(m1)),
                               Line("txt", 0, << >>, << >>, author)))
              ELSE m1
    IN  BG_END(m2)

(***************************************************************************)
(* The state machine                                                       *)
(***************************************************************************)
Call(op, arg, title) == [ op |-> op, arg |-> arg, title |-> title ]

\* The heading lines among the lines of a call: the level between the
\* brackets, the id and the title of each.
Headings(lines) ==
    LET h == SelectSeq(lines, LAMBDA l : l.kind = "h")
    IN  [ k \in 1..Len(h) |->
            [ level |-> h[k].level, id |-> h[k].id, title |-> h[k].title ] ]

\* The unanswered opening tags after a run of opening and closing lines.
RECURSIVE Answer(_, _)
Answer(stack, tags) ==
    IF tags = << >> THEN stack
    ELSE Answer(IF Head(tags).kind = "open" THEN Append(stack, Head(tags))
                ELSE IF stack # << >> THEN SubSeq(stack, 1, Len(stack) - 1)
                ELSE stack,
                Tail(tags))

\* The unanswered opening tags after the lines of a call.
Track(stack, lines) ==
    Answer(stack, SelectSeq(lines, LAMBDA l : l.kind \in {"open", "close"}))

\* The stdio buffer after a call.  The library never calls fflush, and the
\* sessions explored write less than the 1 << 20 bytes of the buffer, so
\* what is written stays buffered.  abort() after a failed assert flushes
\* the open streams or not (implementation-defined); setvbuf on a stream
\* that was already written to (a second BG_INIT) keeps the buffered lines
\* or empties the buffer (undefined by the C standard).
AfterCall(held, fault, fresh) ==
    IF held /\ (fault # "none" \/ fresh) THEN { TRUE, FALSE } ELSE { held }

\* The state after a public call that ran from the current state to m.
Becomes(m, c, fresh) ==
    /\ v_bg_depth' = m.depth
    /\ v_bg_chapter' = m.chapter
    /\ v_bg_toc_titles' = m.titles
    /\ v_bg_toc_levels' = m.levels
    /\ v_bg_toc_numbers' = m.numbers
    /\ v_bg_toc_count' = m.count
    /\ v_bg_out' = m.out
    /\ status' = IF m.fault = "none" THEN "running" ELSE m.fault
    /\ call' = c
    /\ emitted' = m.lines
    /\ hlines' = (IF fresh THEN << >> ELSE hlines) \o Headings(m.lines)
    /\ openStack' = Track(IF fresh THEN << >> ELSE openStack, m.lines)
    /\ buffered' \in AfterCall(buffered \/ m.lines # << >>, m.fault, fresh)
    /\ UNCHANGED b64vars

\* No run of U_BG_TOBASE64 is being followed step by step.
B64Idle ==
    /\ b64_pc = "idle"
    /\ b64_f = [ readable |-> FALSE, bytes |-> << >> ]
    /\ b64_pos = 0
    /\ b64_n = 0
    /\ b64_in = << 0, 0, 0 >>
    /\ b64_sink = << >>

Init ==
    /\ v_bg_depth = 0
    /\ v_bg_chapter = [ i \in 1..6 |-> 0 ]
    /\ v_bg_toc_titles = << >>
    /\ v_bg_toc_levels = << >>
    /\ v_bg_toc_numbers = << >>
    /\ v_bg_toc_count = 0
    /\ v_bg_out = "NULL"
    /\ status = "running"
    /\ call = Call("none", 0, "")
    /\ emitted = << >>
    /\ hlines = << >>
    /\ openStack = << >>
    /\ buffered = FALSE
    /\ B64Idle

\* The process is alive and the library has an output stream.
Ready == status = "running" /\ v_bg_out # "NULL"

\* A call that stores a heading is explored in two regions of the store:
\* below MaxToc entries and within NearFull entries of V_BG_MAX_TOC.  A call
\* that aborts is explored everywhere.
HeadingOffered(m) ==
    \/ v_bg_toc_count < MaxToc
    \/ v_bg_toc_count >= V_BG_MAX_TOC - NearFull
    \/ m.fault # "none"

DoInit ==
    /\ status = "running"
    /\ Becomes(BG_INIT(Machine), Call("BG_INIT", 0, ""), TRUE)

DoInitFile ==
    /\ status = "running"
    /\ \E where \in Streams :
         Becomes(BG_INIT_FILE(Machine, where),
                 Call("BG_INIT_FILE", 0, where), TRUE)

DoTag ==
    /\ Ready
    /\ v_bg_depth < MaxDepth
    /\ Becomes(BG_TAG(Machine), Call("BG_TAG", 0, ""), FALSE)

DoTagA ==
    /\ Ready
    /\ v_bg_depth < MaxDepth
    /\ Becomes(BG_TAG_A(Machine), Call("BG_TAG_A", 0, ""), FALSE)

DoEnd ==
    /\ Ready
    /\ Becomes(BG_END(Machine), Call("BG_END", 0, ""), FALSE)

DoVoid ==
    /\ Ready
    /\ Becomes(BG_VOID(Machine), Call("BG_VOID", 0, ""), FALSE)

DoVoidA ==
    /\ Ready
    /\ Becomes(BG_VOID_A(Machine), Call("BG_VOID_A", 0, ""), FALSE)

DoTxt ==
    /\ Ready
    /\ Becomes(BG_TXT(Machine), Call("BG_TXT", 0, ""), FALSE)

DoH ==
    /\ Ready
    /\ \E level \in Levels, title \in Titles :
         LET m == BG_H(Machine, level, title)
         IN  /\ HeadingOffered(m)
             /\ Becomes(m, Call("BG_H", level, title), FALSE)

DoToc ==
    /\ Ready
    /\ \E depth \in Depths :
         LET m == BG_TOC(Machine, depth)
         IN  /\ HeadingOffered(m)
             /\ Becomes(m, Call("BG_TOC", depth, ""), FALSE)

Next ==
    \/ DoInit
    \/ DoInitFile
    \/ DoTag
    \/ DoTagA
    \/ DoEnd
    \/ DoVoid
    \/ DoVoidA
    \/ DoTxt
    \/ DoH
    \/ DoToc

Spec == Init /\ [][Next]_vars

(***************************************************************************)
(* A session that is close to the capacity of the store: BG_INIT followed  *)
(* by V_BG_MAX_TOC - NearFull calls BG_H(1, "A").                          *)
(***************************************************************************)
RECURSIVE Prefill(_, _)
Prefill(m, n) ==
    IF n = 0 \/ m.fault # "none" THEN m
    ELSE Prefill(BG_H([ m EXCEPT !.lines = << >> ], 1, "A"), n - 1)

Prefilled(n) == Prefill(BG_INIT(Machine0), n)

InitCap ==
    LET m == Prefilled(V_BG_MAX_TOC - NearFull)
    IN  /\ v_bg_depth = m.depth
        /\ v_bg_chapter = m.chapter
        /\ v_bg_toc_titles = m.titles
        /\ v_bg_toc_levels = m.levels
        /\ v_bg_toc_numbers = m.numbers
        /\ v_bg_toc_count = m.count
        /\ v_bg_out = m.out
        /\ status = "running"
        /\ call = Call("BG_H", 1, "A")
        /\ emitted = m.lines
        /\ hlines = [ i \in 1..m.count |->
                        [ level |-> 1, id |-> m.numbers[i], title |-> "A" ] ]
        /\ openStack = << >>
        /\ buffered = TRUE
        /\ B64Idle

SpecCap == InitCap /\ [][Next]_vars

(***************************************************************************)
(* Sessions that also embed files, images, links and page breaks           *)
(***************************************************************************)
DoStyleInline ==
    /\ Ready
    /\ \E path \in Paths :
         Becomes(BG_STYLE_INLINE(Machine, path),
                 Call("BG_STYLE_INLINE", 0, path), FALSE)

DoImg ==
    /\ Ready
    /\ \E path \in Paths :
         Becomes(BG_IMG(Machine, path), Call("BG_IMG", 0, path), FALSE)

DoImgA ==
    /\ Ready
    /\ \E path \in Paths :
         Becomes(BG_IMG_A(Machine, path), Call("BG_IMG_A", 0, path), FALSE)

DoImgInline ==
    /\ Ready
    /\ \E path \in Paths, junk \in Junk :
         Becomes(BG_IMG_INLINE(Machine, path, junk),
                 Call("BG_IMG_INLINE", 0, path), FALSE)

DoImgInlineA ==
    /\ Ready
    /\ \E path \in Paths, junk \in Junk :
         Becomes(BG_IMG_INLINE_A(Machine, path, junk),
                 Call("BG_IMG_INLINE_A", 0, path), FALSE)

DoPageBreak ==
    /\ Ready
    /\ Becomes(BG_PAGEBREAK(Machine), Call("BG_PAGEBREAK", 0, ""), FALSE)

DoLink ==
    /\ Ready
    /\ Becomes(BG_LINK(Machine), Call("BG_LINK", 0, ""), FALSE)

NextSink ==
    \/ Next
    \/ DoStyleInline
    \/ DoImg
    \/ DoImgA
    \/ DoImgInline
    \/ DoImgInlineA
    \/ DoPageBreak
    \/ DoLink

SpecSink == Init /\ [][NextSink]_vars

(***************************************************************************)
(* Sessions that nest the compound emitters between tags and headings      *)
(***************************************************************************)
DoDocTitle ==
    /\ Ready
    /\ Becomes(BG_DOCTITLE(Machine), Call("BG_DOCTITLE", 0, ""), FALSE)

DoLi ==
    /\ Ready
    /\ Becomes(BG_LI(Machine), Call("BG_LI", 0, ""), FALSE)

DoLiA ==
    /\ Ready
    /\ Becomes(BG_LI_A(Machine), Call("BG_LI_A", 0, ""), FALSE)

DoTh ==
    /\ Ready
    /\ Becomes(BG_TH(Machine), Call("BG_TH", 0, ""), FALSE)

DoThA ==
    /\ Ready
    /\ Becomes(BG_TH_A(Machine), Call("BG_TH_A", 0, ""), FALSE)

DoTd ==
    /\ Ready
    /\ Becomes(BG_TD(Machine), Call("BG_TD", 0, ""), FALSE)

DoTdA ==
    /\ Ready
    /\ Becomes(BG_TD_A(Machine), Call("BG_TD_A", 0, ""), FALSE)

DoCaption ==
    /\ Ready
    /\ Becomes(BG_CAPTION(Machine), Call("BG_CAPTION", 0, ""), FALSE)

DoFigCap ==
    /\ Ready
    /\ Becomes(BG_FIGCAP(Machine), Call("BG_FIGCAP", 0, ""), FALSE)

DoStylePrint ==
    /\ Ready
    /\ Becomes(BG_STYLE_PRINT(Machine), Call("BG_STYLE_PRINT", 0, ""), FALSE)

DoQuote ==
    /\ Ready
    /\ \E author \in Authors :
         Becomes(BG_QUOTE(Machine, author), Call("BG_QUOTE", 0, author), FALSE)

NextBook ==
    \/ DoInit
    \/ DoTag
    \/ DoEnd
    \/ DoH
    \/ DoToc
    \/ DoStyleInline
    \/ DoDocTitle
    \/ DoLi
    \/ DoLiA
    \/ DoTh
    \/ DoThA
    \/ DoTd
    \/ DoTdA
    \/ DoCaption
    \/ DoFigCap
    \/ DoStylePrint
    \/ DoQuote

SpecBook == Init /\ [][NextBook]_vars

(***************************************************************************)
(* Sessions that mix tags, text and images with headings                   *)
(***************************************************************************)
NextEmbed ==
    \/ DoInit
    \/ DoTag
    \/ DoTagA
    \/ DoEnd
    \/ DoVoid
    \/ DoVoidA
    \/ DoTxt
    \/ DoH
    \/ DoImg
    \/ DoImgA
    \/ DoImgInline
    \/ DoImgInlineA

SpecEmbed == Init /\ [][NextEmbed]_vars

(***************************************************************************)
(* One run of U_BG_TOBASE64, statement by statement, on every file of up   *)
(* to MaxFileLen bytes.  The library's own variables are at rest.          *)
(***************************************************************************)
bgvars == << v_bg_depth, v_bg_chapter, v_bg_toc_titles, v_bg_toc_levels,
             v_bg_toc_numbers, v_bg_toc_count, v_bg_out, status, call,
             emitted, hlines, openStack, buffered >>

InitB64 ==
    /\ v_bg_depth = 0
    /\ v_bg_chapter = [ i \in 1..6 |-> 0 ]
    /\ v_bg_toc_titles = << >>
    /\ v_bg_toc_levels = << >>
    /\ v_bg_toc_numbers = << >>
    /\ v_bg_toc_count = 0
    /\ v_bg_out = "stdout"
    /\ status = "running"
    /\ call = Call("BG_INIT", 0, "")
    /\ emitted = << >>
    /\ hlines = << >>
    /\ openStack = << >>
    /\ buffered = FALSE
    /\ b64_pc = "fopen"
    /\ b64_f \in Files
    /\ b64_pos = 0
    /\ b64_n = 0
    /\ b64_in \in Junk
    /\ b64_sink = << >>

\* f = fopen(path, "rb") returned a stream: the assert passes.
B64Open ==
    /\ b64_pc = "fopen"
    /\ b64_f.readable
    /\ b64_pc' = "fread"
    /\ UNCHANGED << bgvars, b64_f, b64_pos, b64_n, b64_in, b64_sink >>

\* f == NULL: the assert fails.
B64OpenFails ==
    /\ b64_pc = "fopen"
    /\ ~ b64_f.readable
    /\ b64_pc' = "abort"
    /\ UNCHANGED << bgvars, b64_f, b64_pos, b64_n, b64_in, b64_sink >>

\* One pass of the loop: fread returned n > 0, four characters are written.
B64Window ==
    /\ b64_pc = "fread"
    /\ FreadCount(b64_f.bytes, b64_pos) > 0
    /\ b64_n' = FreadCount(b64_f.bytes, b64_pos)
    /\ b64_in' = FreadInto(b64_in, b64_f.bytes, b64_pos)
    /\ b64_pos' = b64_pos + b64_n'
    /\ b64_sink' = b64_sink \o Window(b64_in', b64_n')
    /\ UNCHANGED << bgvars, b64_pc, b64_f >>

\* fread returned 0: the loop ends and the file is closed.
B64Close ==
    /\ b64_pc = "fread"
    /\ ~ (FreadCount(b64_f.bytes, b64_pos) > 0)
    /\ b64_n' = 0
    /\ b64_pc' = "fclose"
    /\ UNCHANGED << bgvars, b64_f, b64_pos, b64_in, b64_sink >>

NextB64 ==
    \/ B64Open
    \/ B64OpenFails
    \/ B64Window
    \/ B64Close

SpecB64 == InitB64 /\ [][NextB64]_vars

(***************************************************************************)
(* Reading a label back                                                    *)
(***************************************************************************)
IsDigit(c) == \E d \in 1..10 : DigitChar[d] = c

DigitValue(c) == (CHOOSE d \in 1..10 : DigitChar[d] = c) - 1

\* The text between the dots of a label, one entry per '.'; text after the
\* last '.' is one more entry.
RECURSIVE Components(_, _)
Components(text, current) ==
    IF text = << >> THEN (IF current = << >> THEN << >> ELSE << current >>)
    ELSE IF Head(text) = "." THEN << current >> \o Components(Tail(text), << >>)
    ELSE Components(Tail(text), Append(current, Head(text)))

\* A component is a decimal numeral: digits only, no leading zero.
IsNumeral(c) ==
    /\ c # << >>
    /\ \A k \in 1..Len(c) : IsDigit(c[k])
    /\ Len(c) > 1 => c[1] # "0"

RECURSIVE NumeralValue(_)
NumeralValue(c) ==
    IF c = << >> THEN 0
    ELSE 10 * NumeralValue(SubSeq(c, 1, Len(c) - 1)) + DigitValue(c[Len(c)])

\* The label is well formed: numerals, each followed by a '.'.
IsLabel(label) ==
    /\ label # << >> => label[Len(label)] = "."
    /\ \A k \in 1..Len(Components(label, << >>)) :
         IsNumeral(Components(label, << >>)[k])

\* The integers a well-formed label stands for.
LabelValues(label) ==
    [ k \in 1..Len(Components(label, << >>)) |->
        NumeralValue(Components(label, << >>)[k]) ]

\* Lexicographic order on sequences of integers; a sequence sorts before
\* its own extensions.
LexLess(a, b) ==
    \E k \in 1..Len(b) :
       /\ \A j \in 1..(k - 1) : j <= Len(a) /\ a[j] = b[j]
       /\ \/ k = Len(a) + 1
          \/ k <= Len(a) /\ a[k] < b[k]

\* The stored entries as records, in store order.
Entries(titles, levels, numbers, count) ==
    [ i \in 1..count |->
        [ level |-> levels[i], label |-> numbers[i], title |-> titles[i] ] ]

StoreUnchanged ==
    /\ v_bg_toc_titles' = v_bg_toc_titles
    /\ v_bg_toc_levels' = v_bg_toc_levels
    /\ v_bg_toc_numbers' = v_bg_toc_numbers
    /\ v_bg_toc_count' = v_bg_toc_count

(***************************************************************************)
(* Properties                                                              *)
(***************************************************************************)

\* C1: a BG_H(level, title) that passes its preconditions leaves the counter
\* of level one greater than before, every counter of a greater level 0 and
\* every counter of a smaller level unchanged.
C1_CounterUpdate ==
    [][ (call'.op = "BG_H" /\ status' = "running") =>
          \A i \in 1..6 :
             v_bg_chapter'[i] =
                IF i = call'.arg THEN v_bg_chapter[i] + 1
                ELSE IF i > call'.arg THEN 0
                ELSE v_bg_chapter[i] ]_vars

\* The second level-1 heading of a session, recorded while the level-2
\* counter was non-zero.
C1_Witness ==
    /\ call.op = "BG_H" /\ call.arg = 1 /\ status = "running"
    /\ v_bg_chapter[1] = 2 /\ v_bg_toc_count = 3
    /\ v_bg_toc_levels = << 1, 2, 1 >>

\* C2: the label of a successful BG_H(level, ...) is, for the levels
\* 1..level in order, the decimal post-update counter followed by '.', so it
\* has exactly level components; the same label is the id of the heading
\* line, its visible prefix and the label stored in the TOC entry.
C2_Label ==
    (call.op = "BG_H" /\ status = "running") =>
       /\ Len(emitted) = 1
       /\ emitted[1].kind = "h"
       /\ emitted[1].level = call.arg
       /\ IsLabel(emitted[1].id)
       /\ LabelValues(emitted[1].id) = SubSeq(v_bg_chapter, 1, call.arg)
       /\ emitted[1].prefix = emitted[1].id
       /\ v_bg_toc_numbers[v_bg_toc_count] = emitted[1].id

\* A two-component label whose first component has two digits.
C2_Witness ==
    /\ call.op = "BG_H" /\ call.arg = 2 /\ status = "running"
    /\ emitted[1].id = << "9", "9", ".", "1", "." >>

\* C3: within a session the labels of successive successful BG_H calls are
\* strictly increasing as sequences of integers in lexicographic order, so
\* no two headings of a session share a label.
C3_LabelsIncrease ==
    /\ \A i \in 1..(v_bg_toc_count - 1) :
          LexLess(LabelValues(v_bg_toc_numbers[i]),
                  LabelValues(v_bg_toc_numbers[i + 1]))
    /\ \A i, j \in 1..v_bg_toc_count :
          i # j => v_bg_toc_numbers[i] # v_bg_toc_numbers[j]

\* "1.", "1.1.", "2.": an extension of a label, then a greater first part.
C3_Witness ==
    /\ status = "running"
    /\ v_bg_toc_numbers =
          << << "1", "." >>, << "1", ".", "1", "." >>, << "2", "." >> >>

\* C4: BG_H(level, ...) with 2 <= level <= 6 called while the counter of
\* level-1 is 0 fails fatally before changing anything; so the first heading
\* of a session must be level 1, and a level-1 heading cannot be followed
\* directly by a level-3 heading.
C4_NoSkippedLevel ==
    [][ ( /\ call'.op = "BG_H"
          /\ \/ call'.arg \in 2..6 /\ v_bg_chapter[call'.arg - 1] = 0
             \/ call'.arg \in 2..6 /\ v_bg_toc_count = 0
             \/ /\ call'.arg = 3
                /\ call.op = "BG_H" /\ call.arg = 1 /\ status = "running" ) =>
        ( /\ status' = "jump"
          /\ v_bg_chapter' = v_bg_chapter
          /\ StoreUnchanged
          /\ emitted' = << >> ) ]_vars

\* BG_H(3, ...) right after the second level-1 heading of a session whose
\* first chapter had a level-2 heading.
C4_Witness ==
    /\ status = "jump" /\ call.op = "BG_H" /\ call.arg = 3
    /\ v_bg_toc_levels = << 1, 2, 1 >>

\* C5: BG_H with a level outside 1..6 fails fatally and produces no TOC
\* entry, no emitted line and no change to the chapter counters, in whatever
\* state the session is.
C5_LevelRange ==
    [][ (call'.op = "BG_H" /\ call'.arg \notin 1..6) =>
           ( /\ status' = "level"
             /\ v_bg_chapter' = v_bg_chapter
             /\ StoreUnchanged
             /\ emitted' = << >> ) ]_vars

\* BG_H(7, ...) in a session that already has headings.
C5_Witness ==
    /\ status = "level" /\ call.op = "BG_H" /\ call.arg = 7
    /\ v_bg_toc_count = 2

\* C6: when N BG_H calls have succeeded since the last BG_INIT /
\* BG_INIT_FILE (the one BG_TOC performs included), v_bg_toc_count = N and
\* entry i holds the level, the label and the title of the i-th of them.
C6_StoreIsCallOrder ==
    status = "running" =>
       /\ v_bg_toc_count = Len(hlines)
       /\ Len(v_bg_toc_titles) = v_bg_toc_count
       /\ Len(v_bg_toc_levels) = v_bg_toc_count
       /\ Len(v_bg_toc_numbers) = v_bg_toc_count
       /\ \A i \in 1..Len(hlines) :
             /\ v_bg_toc_levels[i] = hlines[i].level
             /\ v_bg_toc_numbers[i] = hlines[i].id
             /\ v_bg_toc_titles[i] = hlines[i].title

\* A heading, the heading of BG_TOC, and another heading with another title.
C6_Witness ==
    /\ status = "running"
    /\ v_bg_toc_titles = << "A", TocTitle, "B" >>
    /\ v_bg_toc_levels = << 1, 1, 2 >>

\* C7: the number of stored entries never exceeds V_BG_MAX_TOC, and a BG_H
\* made when the store holds V_BG_MAX_TOC entries fails fatally inside that
\* very call, without writing an entry past the end of the store.
C7_Capacity ==
    [][ /\ v_bg_toc_count' <= V_BG_MAX_TOC
        /\ Len(v_bg_toc_numbers') <= V_BG_MAX_TOC
        /\ Len(v_bg_toc_levels') <= V_BG_MAX_TOC
        /\ Len(v_bg_toc_titles') <= V_BG_MAX_TOC
        /\ (v_bg_toc_count = V_BG_MAX_TOC /\ call'.op \in {"BG_H", "BG_TOC"})
              => (status' # "running" /\ StoreUnchanged) ]_vars

\* A valid BG_H stopped by the capacity assertion.
C7_Witness ==
    /\ status = "capacity" /\ call.op = "BG_H"
    /\ v_bg_toc_count = V_BG_MAX_TOC

\* The list items among the lines of a call, as entries.
Items(lines) ==
    LET li == SelectSeq(lines, LAMBDA l : l.kind = "li")
    IN  [ k \in 1..Len(li) |->
            [ level |-> li[k].level, label |-> li[k].id,
              title |-> li[k].title ] ]

\* C8: for every D in 0..6 BG_TOC(D) emits exactly one list item for each
\* heading recorded before the call whose level is <= D (for every such
\* heading when D = 0), in the order of recording, and none for a heading
\* with level > D when D # 0.
C8_TocFilter ==
    [][ (call'.op = "BG_TOC" /\ status' = "running") =>
          /\ Items(emitted') =
                SelectSeq(Entries(v_bg_toc_titles, v_bg_toc_levels,
                                  v_bg_toc_numbers, v_bg_toc_count),
                          LAMBDA e : call'.arg = 0 \/ e.level <= call'.arg)
          /\ \A k \in 1..Len(emitted') :
                emitted'[k].kind = "li" =>
                   emitted'[k].prefix = emitted'[k].id ]_vars

\* BG_TOC(1) after headings of level 1 and 2: one item, one entry left out.
C8_Witness ==
    /\ call.op = "BG_TOC" /\ call.arg = 1 /\ status = "running"
    /\ v_bg_toc_levels = << 1, 2, 1 >>
    /\ v_bg_toc_titles[3] = TocTitle
    /\ Len(Items(emitted)) = 1

\* C9: no list item emitted by BG_TOC refers to a heading that a BG_TOC
\* call recorded for itself, whatever calls precede it in the session.
C9_NoSelfItem ==
    \A k \in 1..Len(emitted) :
       emitted[k].kind = "li" => emitted[k].title # TocTitle

\* C10: a closing call that answers an opening call of the session brings
\* v_bg_depth back to its value before that opening call, and its closing
\* tag is written with the indentation of the opening tag, whatever
\* balanced calls came in between.
C10_Balanced ==
    [][ (call'.op = "BG_END" /\ status' = "running" /\ openStack # << >>) =>
          LET opening == openStack[Len(openStack)]
          IN  /\ v_bg_depth' = opening.depth
              /\ Len(emitted') = 1
              /\ emitted'[1].kind = "close"
              /\ emitted'[1].indent = opening.indent ]_vars

\* The closing call of the inner of two nested elements.
C10_Witness ==
    /\ call.op = "BG_END" /\ status = "running"
    /\ Len(openStack) = 1
    /\ emitted[1].indent = 2 /\ v_bg_depth = 1

InitCalls == { "BG_INIT", "BG_INIT_FILE" }

\* C11: between two public calls v_bg_depth >= 0; a BG_END at depth 0 leaves
\* the depth at 0, its closing tag and the next emitted line get an empty
\* indentation prefix, and a BG_TAG after it leaves its children one level
\* deep.
C11_DepthClamped ==
    [][ /\ v_bg_depth' >= 0
        /\ (call'.op = "BG_END" /\ v_bg_depth = 0) =>
              /\ v_bg_depth' = 0
              /\ emitted'[1].indent = 0
        /\ (call.op = "BG_END" /\ v_bg_depth = 0 /\ emitted' # << >>) =>
              emitted'[1].indent = 0
        /\ ( /\ call.op = "BG_END" /\ v_bg_depth = 0
             /\ call'.op \in { "BG_TAG", "BG_TAG_A" } ) =>
              v_bg_depth' = 1 ]_vars

\* A BG_END that leaves no element open, its closing tag written without
\* indentation.
C11_Witness ==
    /\ call.op = "BG_END" /\ status = "running"
    /\ v_bg_depth = 0 /\ openStack = << >>
    /\ emitted[1].indent = 0

\* C13: after BG_INIT or BG_INIT_FILE the depth is 0, the six counters are 0
\* and the store is empty; the next BG_H(1, ...) gets the label "1." and a
\* BG_TOC lists no heading recorded before the initialization.
C13_InitResets ==
    [][ /\ call'.op \in InitCalls =>
              /\ v_bg_depth' = 0
              /\ \A i \in 1..6 : v_bg_chapter'[i] = 0
              /\ v_bg_toc_count' = 0
              /\ v_bg_toc_titles' = << >>
              /\ v_bg_toc_levels' = << >>
              /\ v_bg_toc_numbers' = << >>
        /\ (call.op \in InitCalls /\ call'.op = "BG_H" /\ call'.arg = 1) =>
              /\ status' = "running"
              /\ emitted'[1].id = << "1", "." >>
        /\ (call.op \in InitCalls /\ call'.op = "BG_TOC"
              /\ status' = "running") =>
              Items(emitted') = << >>
        /\ (call'.op = "BG_TOC" /\ status' = "running") =>
              \A k \in 1..Len(Items(emitted')) :
                 \E i \in 1..Len(hlines) :
                    /\ hlines[i].level = Items(emitted')[k].level
                    /\ hlines[i].id = Items(emitted')[k].label
                    /\ hlines[i].title = Items(emitted')[k].title ]_vars

\* A BG_INIT in a process that has written lines before.
C13_Witness ==
    /\ call.op = "BG_INIT" /\ status = "running"
    /\ buffered
    /\ v_bg_toc_count = 0 /\ v_bg_depth = 0

\* C14: after BG_INIT() the output goes to stdout, whatever calls preceded
\* it.
C14_InitBindsStdout ==
    (call.op = "BG_INIT" /\ status = "running") => v_bg_out = "stdout"

\* C20: in every state between public calls v_bg_toc_count < V_BG_MAX_TOC.
C20_CountBelowMax ==
    status = "running" => v_bg_toc_count < V_BG_MAX_TOC

\* The kinds of line the public operations start: opening, closing and void
\* tags, headings, text, links, page breaks, TOC items and images (complete
\* or cut short).
LineStarts ==
    { "open", "close", "void", "h", "txt", "a", "pagebreak", "li", "img",
      "img-prefix" }

\* C12: every line a public operation starts stands behind exactly
\* 2 * v_bg_depth spaces, for the depth current when it was written.
C12_IndentBeforeEveryLine ==
    \A k \in 1..Len(emitted) :
       emitted[k].kind \in LineStarts
          => emitted[k].indent = 2 * emitted[k].depth

(***************************************************************************)
(* A standard Base64 decoder (RFC 4648, with padding)                      *)
(***************************************************************************)
IsBase64Char(c) == \E i \in 0..63 : TableAt(i) = c

Base64Value(c) == CHOOSE i \in 0..63 : TableAt(i) = c

\* A group of four characters is well formed: alphabet characters, then
\* "==" behind two of them or "=" behind three, the unused bits 0.
IsQuad(q, last) ==
    /\ IsBase64Char(q[1]) /\ IsBase64Char(q[2])
    /\ \/ IsBase64Char(q[3]) /\ IsBase64Char(q[4])
       \/ /\ last /\ IsBase64Char(q[3]) /\ q[4] = "="
          /\ Base64Value(q[3]) % 4 = 0
       \/ /\ last /\ q[3] = "=" /\ q[4] = "="
          /\ Base64Value(q[2]) % 16 = 0

\* The bytes a well-formed group stands for.
QuadBytes(q) ==
    LET a == Base64Value(q[1])
        b == Base64Value(q[2])
        first == a * 4 + (b \div 16)
    IN  IF q[3] = "=" THEN << first >>
        ELSE LET c == Base64Value(q[3])
                 second == (b % 16) * 16 + (c \div 4)
             IN  IF q[4] = "=" THEN << first, second >>
                 ELSE << first, second, (c % 4) * 64 + Base64Value(q[4]) >>

\* The text is Base64: a whole number of well-formed groups, padding in the
\* last one only.
IsBase64(text) ==
    /\ Len(text) % 4 = 0
    /\ \A g \in 1..(Len(text) \div 4) :
         IsQuad(SubSeq(text, 4 * g - 3, 4 * g), g = Len(text) \div 4)

RECURSIVE Base64Decode(_)
Base64Decode(text) ==
    IF text = << >> THEN << >>
    ELSE QuadBytes(SubSeq(text, 1, 4)) \o Base64Decode(SubSeq(text, 5, Len(text)))

\* C15: when U_BG_TOBASE64 has run through a file of 0..MaxFileLen bytes, the
\* text it wrote is Base64 and a standard decoder turns it back into exactly
\* the bytes of the file.
C15_RoundTrip ==
    b64_pc = "fclose" =>
       /\ IsBase64(b64_sink)
       /\ Base64Decode(b64_sink) = b64_f.bytes

\* A file of five bytes, not all of them 0, was encoded with one "=".
C15_Witness ==
    /\ b64_pc = "fclose"
    /\ Len(b64_f.bytes) = 5
    /\ b64_f.bytes[2] = 255 /\ b64_f.bytes[5] = 77
    /\ b64_sink[Len(b64_sink)] = "="
    /\ Base64Decode(b64_sink) = b64_f.bytes

CeilDiv(n, d) == (n + d - 1) \div d

\* The number of padding characters the claim names for n bytes.
Padding(n) == (3 - (n % 3)) % 3

PadCount(text) == Cardinality({ k \in 1..Len(text) : text[k] = "=" })

\* C16: after n bytes U_BG_TOBASE64 has written 4 * ceil(n / 3) characters,
\* (3 - n % 3) % 3 of them are '=', and the '=' are the last characters
\* written; this holds after every window and when the run ends.
C16_LengthAndPadding ==
    b64_pc \in { "fread", "fclose" } =>
       /\ Len(b64_sink) = 4 * CeilDiv(b64_pos, 3)
       /\ PadCount(b64_sink) = Padding(b64_pos)
       /\ \A k \in 1..Len(b64_sink) :
            b64_sink[k] = "=" => k > Len(b64_sink) - Padding(b64_pos)
       /\ b64_pc = "fclose" => b64_pos = Len(b64_f.bytes)

\* A file of four bytes was encoded as eight characters that end in "==".
C16_Witness ==
    /\ b64_pc = "fclose"
    /\ Len(b64_f.bytes) = 4
    /\ Len(b64_sink) = 8
    /\ b64_sink[7] = "=" /\ b64_sink[8] = "="
    /\ b64_sink[6] # "="

\* The calls that embed a file as Base64, and the calls that read a file.
InlineImageCalls == { "BG_IMG_INLINE", "BG_IMG_INLINE_A" }

FileCalls == InlineImageCalls \cup { "BG_STYLE_INLINE" }

\* C17: a BG_IMG_INLINE or BG_IMG_INLINE_A whose file cannot be opened
\* writes a complete img element or nothing of it: no line that holds the
\* opened "<img ... base64," without payload and closing.
C17_NoPartialEmbed ==
    (call.op \in InlineImageCalls /\ ~ FileAt(call.title).readable)
       => \A k \in 1..Len(emitted) : emitted[k].kind # "img-prefix"

\* C18: a BG_STYLE_INLINE, BG_IMG_INLINE or BG_IMG_INLINE_A whose file cannot
\* be opened returns to its caller, the file helper having written nothing:
\* the process is still running and no line carries file content.
C18_SilentNoOp ==
    (call.op \in FileCalls /\ ~ FileAt(call.title).readable)
       => /\ status = "running"
          /\ \A k \in 1..Len(emitted) : emitted[k].payload = << >>

\* C19: when a failed precondition has ended the process, nothing the
\* library wrote is left in the stdio buffer.
C19_FlushedOnAbort == status # "running" => ~ buffered

\* The calls that open and close their own containers.
CompoundCalls ==
    { "BG_TOC", "BG_LI", "BG_LI_A", "BG_TD", "BG_TD_A", "BG_TH", "BG_TH_A",
      "BG_CAPTION", "BG_FIGCAP", "BG_DOCTITLE", "BG_QUOTE", "BG_STYLE_INLINE",
      "BG_STYLE_PRINT" }

\* C21: a compound emitter that returns leaves v_bg_depth as it found it,
\* and every container it opened is closed again.
C21_DepthNeutral ==
    [][ (call'.op \in CompoundCalls /\ status' = "running")
           => /\ v_bg_depth' = v_bg_depth
              /\ Len(openStack') <= Len(openStack)
              /\ Track(<< >>, emitted') = << >> ]_vars

\* A BG_QUOTE with an author returned inside two open elements, its eight
\* lines written.
C21_Witness ==
    /\ call.op = "BG_QUOTE" /\ call.title = "A"
    /\ status = "running"
    /\ v_bg_depth = 2
    /\ Len(openStack) = 2
    /\ Len(emitted) = 8

\* C22: a call other than BG_INIT / BG_INIT_FILE removes no stored entry and
\* changes the level, label and title of none; a BG_H that returns writes
\* the slot at index v_bg_toc_count only and adds exactly 1 to the count;
\* a call that is neither BG_H nor BG_TOC leaves the store as it is.
C22_AppendOnly ==
    [][ call'.op \notin InitCalls
           => /\ v_bg_toc_count' >= v_bg_toc_count
              /\ \A i \in 1..v_bg_toc_count :
                    /\ v_bg_toc_titles'[i] = v_bg_toc_titles[i]
                    /\ v_bg_toc_levels'[i] = v_bg_toc_levels[i]
                    /\ v_bg_toc_numbers'[i] = v_bg_toc_numbers[i]
              /\ (call'.op = "BG_H" /\ status' = "running")
                    => /\ v_bg_toc_count' = v_bg_toc_count + 1
                       /\ v_bg_toc_titles'[v_bg_toc_count'] = call'.title
                       /\ v_bg_toc_levels'[v_bg_toc_count'] = call'.arg
                       /\ v_bg_toc_numbers'[v_bg_toc_count'] = emitted'[1].id
              /\ call'.op \notin { "BG_H", "BG_TOC" } => StoreUnchanged ]_vars

\* A BG_H(2, "B") returned with its entry behind two stored ones.
C22_Witness ==
    /\ call = Call("BG_H", 2, "B")
    /\ status = "running"
    /\ v_bg_toc_count = 3
    /\ v_bg_toc_titles[1] = "A"
    /\ v_bg_toc_levels = << 1, 1, 2 >>
    /\ v_bg_toc_numbers[3] = << "2", ".", "1", "." >>

\* The calls that write tags, text and images.
MarkupCalls ==
    { "BG_TAG", "BG_TAG_A", "BG_END", "BG_VOID", "BG_VOID_A", "BG_TXT",
      "BG_IMG", "BG_IMG_A", "BG_IMG_INLINE", "BG_IMG_INLINE_A" }

\* C23: an opening, closing, void, text or image call leaves the chapter
\* counters and the store as they are, whether it returns or not; a BG_H
\* leaves v_bg_depth as it is and writes its heading at that depth.
C23_StateSeparation ==
    [][ /\ call'.op \in MarkupCalls
           => /\ v_bg_chapter' = v_bg_chapter
              /\ StoreUnchanged
        /\ call'.op = "BG_H"
           => /\ v_bg_depth' = v_bg_depth
              /\ \A k \in 1..Len(emitted') :
                    /\ emitted'[k].depth = v_bg_depth
                    /\ emitted'[k].indent = 2 * v_bg_depth ]_vars

\* An image was embedded one level deep in a session with two headings; a
\* heading of level 2 is the last one counted.
C23_Witness ==
    /\ call = Call("BG_IMG_INLINE_A", 0, "asset")
    /\ status = "running"
    /\ emitted[1].payload # << >>
    /\ v_bg_depth = 1
    /\ v_bg_toc_count = 2
    /\ v_bg_chapter[2] = 1

\* No component of the label stands for 0.
NoZeroComponent(label) ==
    \A k \in 1..Len(Components(label, << >>)) :
       NumeralValue(Components(label, << >>)[k]) # 0

\* C24: between calls the non-zero chapter counters are a prefix of the
\* vector, and no label in the store or in a heading line written since the
\* last initialization has a component 0.
C24_CountersPrefix ==
    /\ \A level \in 1..6 :
          v_bg_chapter[level] # 0
             => \A above \in 1..(level - 1) : v_bg_chapter[above] # 0
    /\ \A i \in 1..v_bg_toc_count : NoZeroComponent(v_bg_toc_numbers[i])
    /\ \A i \in 1..Len(hlines) : NoZeroComponent(hlines[i].id)

\* Three headings, one below the other: the counters of levels 1..3 are 1
\* and the last label is "1.1.1.".
C24_Witness ==
    /\ status = "running"
    /\ v_bg_chapter = << 1, 1, 1, 0, 0, 0 >>
    /\ v_bg_toc_count = 3
    /\ v_bg_toc_numbers[3] = << "1", ".", "1", ".", "1", "." >>
    /\ hlines[3].id = v_bg_toc_numbers[3]

\* C25: a BG_H with a level in 1..6 that skips no level, made when the store
\* holds V_BG_MAX_TOC entries, stops at the capacity assertion, and by then
\* it has counted the heading (counter of the level + 1, deeper counters 0)
\* and written the heading line; the store alone is as it was.  No BG_H
\* stops at that assertion in another way.
C25_CapacityNotAtomic ==
    [][ /\ ( /\ call'.op = "BG_H"
             /\ v_bg_toc_count = V_BG_MAX_TOC
             /\ call'.arg \in 1..6
             /\ call'.arg >= 2 => v_bg_chapter[call'.arg - 1] # 0 )
           => status' = "capacity"
        /\ (call'.op = "BG_H" /\ status' = "capacity")
           => /\ v_bg_toc_count = V_BG_MAX_TOC
              /\ StoreUnchanged
              /\ v_bg_chapter'[call'.arg] = v_bg_chapter[call'.arg] + 1
              /\ \A i \in 1..6 :
                    /\ i > call'.arg => v_bg_chapter'[i] = 0
                    /\ i < call'.arg => v_bg_chapter'[i] = v_bg_chapter[i]
              /\ Len(emitted') = 1
              /\ emitted'[1].kind = "h"
              /\ emitted'[1].level = call'.arg
              /\ emitted'[1].title = call'.title
              /\ NumeralValue(Components(emitted'[1].id, << >>)[call'.arg])
                    = v_bg_chapter'[call'.arg] ]_vars

\* BG_H(2, "B") on a full store: stopped, with the line of heading "100.1."
\* written and the counter of level 2 at 1.
C25_Witness ==
    /\ call = Call("BG_H", 2, "B")
    /\ status = "capacity"
    /\ v_bg_toc_count = V_BG_MAX_TOC
    /\ v_bg_chapter[2] = 1
    /\ emitted[1].id = << "1", "0", "0", ".", "1", "." >>

\* C26: a BG_TOC(depth) with depth in 0..6 counts and stores its own heading
\* like a BG_H(1, "Table of Contents"): counter of level 1 + 1, counters of
\* levels 2..6 at 0, one more entry (level 1, the label of the new counter,
\* that title) behind the stored ones; on a full store it stops at the
\* capacity assertion.  A BG_H(2) that follows a BG_TOC is labelled with the
\* label of the BG_TOC's entry and "1.".
C26_TocRecordsItself ==
    [][ /\ (call'.op = "BG_TOC" /\ call'.arg \in 0..6 /\ v_bg_toc_count < V_BG_MAX_TOC)
           => /\ status' = "running"
              /\ v_bg_chapter'[1] = v_bg_chapter[1] + 1
              /\ \A i \in 2..6 : v_bg_chapter'[i] = 0
              /\ v_bg_toc_count' = v_bg_toc_count + 1
              /\ v_bg_toc_levels'[v_bg_toc_count'] = 1
              /\ v_bg_toc_titles'[v_bg_toc_count'] = TocTitle
              /\ IsLabel(v_bg_toc_numbers'[v_bg_toc_count'])
              /\ LabelValues(v_bg_toc_numbers'[v_bg_toc_count'])
                    = << v_bg_chapter'[1] >>
        /\ (call'.op = "BG_TOC" /\ call'.arg \in 0..6 /\ v_bg_toc_count = V_BG_MAX_TOC)
           => /\ status' = "capacity"
              /\ StoreUnchanged
        /\ ( /\ call.op = "BG_TOC" /\ status = "running"
             /\ call'.op = "BG_H" /\ call'.arg = 2 /\ status' = "running" )
           => /\ v_bg_toc_numbers'[v_bg_toc_count']
                    = v_bg_toc_numbers[v_bg_toc_count] \o << "1", "." >>
              /\ emitted'[1].id = v_bg_toc_numbers'[v_bg_toc_count'] ]_vars

\* The heading "99.1." was recorded behind the entry "99." of a BG_TOC.
C26_Witness ==
    /\ call = Call("BG_H", 2, "A")
    /\ status = "running"
    /\ v_bg_toc_count = V_BG_MAX_TOC
    /\ v_bg_toc_titles[V_BG_MAX_TOC - 1] = TocTitle
    /\ v_bg_toc_numbers[V_BG_MAX_TOC - 1] = << "9", "9", "." >>
    /\ v_bg_toc_numbers[V_BG_MAX_TOC] = << "9", "9", ".", "1", "." >>

\* The bytes a text takes as a C string: its characters and the '\0'.
CStringSize(text) == Len(text) + 1

\* C27: every chapter counter is at most V_BG_MAX_TOC + 1; the component
\* sprintf builds from any counter fits chapterTmpBuf, the label strcat
\* builds from the counters of all six levels fits chapterNumBuf, and every
\* stored label fits its slot of v_bg_toc_numbers; a label is at most 31
\* characters long.
C27_BuffersFit ==
    /\ \A i \in 1..6 :
          /\ v_bg_chapter[i] <= V_BG_MAX_TOC + 1
          /\ CStringSize(ChapterTmp(v_bg_chapter[i])) <= ChapterTmpBufSize
    /\ \A level \in 1..6 :
          /\ CStringSize(ChapterNum(v_bg_chapter, level)) <= ChapterNumBufSize
          /\ Len(ChapterNum(v_bg_chapter, level)) <= 31
    /\ \A i \in 1..v_bg_toc_count :
          CStringSize(v_bg_toc_numbers[i]) <= TocNumberSize
    /\ \A k \in 1..Len(emitted) :
          CStringSize(emitted[k].id) <= ChapterNumBufSize

\* The 101st heading of level 1 since BG_INIT: counted, labelled "101." and
\* stopped at the capacity assertion.
C27_Witness ==
    /\ call.op = "BG_H" /\ call.arg = 1
    /\ status = "capacity"
    /\ v_bg_chapter[1] = V_BG_MAX_TOC + 1
    /\ emitted[1].id = << "1", "0", "1", "." >>

====
